---------------------------- MODULE Spec2Model ----------------------------
(* supabase-stateful: the `start` and `stop` commands, the snapshot store   *)
(* (state file and its backup) and the container probe, as a state machine. *)
(* One command runs at a time (the control flow is synchronous); each       *)
(* action is one step of a command: one external process invocation with    *)
(* the bookkeeping the code does around it.  `ops` records the operations   *)
(* the running command has invoked, `logs` what it has printed.             *)
EXTENDS Naturals, Sequences, FiniteSets, TLC

VARIABLES
  pc,          \* position of the running command ("idle" before the first, "done" after one)
  cmd,         \* the command being run: "none", "start" or "stop"
  running,     \* what isRunning() returned at the beginning of the command
  attempt,     \* startSupabase: index of the start strategy being tried
  tableFlags,  \* saveState: the export targets discovery returned
  ops,         \* operations invoked by the command so far: [op, ok]
  logs,        \* messages printed by the command so far: [level, msg, arg]
  exitCode,    \* process exit code, meaningful when pc = "done"
  files,       \* the file system: path -> content, for the paths that exist
  containers,  \* names of the running containers
  clock,       \* wall clock (the timestamp of the snapshot banner)
  prevState,   \* history: what the state file path held just before its most recent write
  listing,     \* applyMigrations: the migration listing (the Applied flag of each entry)
  db,          \* the database: table name -> [keyed, rows], for the tables that exist
  stateSql,    \* the text of the snapshot, as saveState composes it (a sequence of tokens)
  savedDb,     \* history: the database as it was when the snapshot was taken
  replays,     \* how many times the snapshot has been replayed into the database
  catalog,     \* pg_tables: the set of [schema, table] rows
  targets,     \* the export targets of the latest table discovery
  prevTargets, \* history: the export targets of the discovery before it
  discoveries, \* how many discoveries have run since the catalog last changed
  writer,      \* fs.writeFile of the state file: "idle", "open", "write"
  reader,      \* a concurrent restoreState: "idle", "copy"
  observed     \* what the reader's docker cp last read: <<>> or <<content>>

\* The variables of the commands, and those of the snapshot's content.
cmdVars == <<pc, cmd, running, attempt, tableFlags, ops, logs, exitCode, files,
             containers, clock, prevState, listing>>

dbVars == <<db, stateSql, savedDb, replays>>

catalogVars == <<catalog, targets, prevTargets, discoveries>>

ioVars == <<writer, reader, observed>>

vars == <<cmdVars, dbVars, catalogVars, ioVars>>

-----------------------------------------------------------------------------
(* Bounds *)

MaxClock == 3

MaxMigrations == 2

-----------------------------------------------------------------------------
(* Configuration and environment *)

stateFile == "supabase/local-state.sql"

backupFile == "supabase/local-state.sql.backup"

\* A container name is a sequence of tokens; "supabase_db_" is the marker the
\* probe looks for.
containerName == <<"supabase_db_", "app">>

ContainerNames == {containerName, <<"supabase_db_", "other">>, <<"web">>}

ExitStatuses == {0, 1}

NoFiles == [p \in {} |-> 0]

\* A database without tables (a fresh or reset volume).
EmptyDb == <<>>

fileExists(f, p) == p \in DOMAIN f

copyFile(f, src, dst) == (dst :> f[src]) @@ f

writeFile(f, p, content) == (p :> content) @@ f

stateExists(f) == fileExists(f, stateFile)

Op(name, ok) == [op |-> name, ok |-> ok, arg |-> ""]

OpArg(name, ok, arg) == [op |-> name, ok |-> ok, arg |-> arg]

Log(level, msg) == [level |-> level, msg |-> msg, arg |-> 0]

LogN(level, msg, n) == [level |-> level, msg |-> msg, arg |-> n]

\* The stage that follows `stage` in a sequence of stages; the command ends
\* normally after the last one.
After(seq, stage) ==
  LET i == CHOOSE k \in DOMAIN seq : seq[k] = stage
  IN IF i < Len(seq) THEN seq[i + 1] ELSE "exit0"

Goto(target) ==
  /\ pc' = IF target \in {"exit0", "exit1"} THEN "done" ELSE target
  /\ exitCode' = IF target = "exit1" THEN 1 ELSE 0

-----------------------------------------------------------------------------
(* ContainerProbe *)

\* Mutant: the outcome of the query is not looked at.
isRunning_Unchecked(queryOk, names) ==
  \E n \in names : \E i \in DOMAIN n : n[i] = "supabase_db_"

\* isRunning(): a failed docker ps is caught and answered false; otherwise
\* the answer is whether the output includes 'supabase_db_'.
isRunning(queryOk, names) ==
  queryOk /\ \E n \in names : \E i \in DOMAIN n : n[i] = "supabase_db_"

-----------------------------------------------------------------------------
\* No command has run yet.
CmdInit ==
  /\ pc = "idle"
  /\ cmd = "none"
  /\ running = FALSE
  /\ attempt = 1
  /\ tableFlags = <<>>
  /\ ops = <<>>
  /\ logs = <<>>
  /\ exitCode = 0
  /\ files = NoFiles
  /\ containers = {}
  /\ clock = 0
  /\ prevState = NoFiles
  /\ listing = <<>>

\* No snapshot content is being followed.
DbIdle ==
  /\ db = EmptyDb
  /\ stateSql = <<>>
  /\ savedDb = EmptyDb
  /\ replays = 0

\* No catalog is being followed.
CatalogIdle ==
  /\ catalog = {}
  /\ targets = <<>>
  /\ prevTargets = <<>>
  /\ discoveries = 0

\* No write of the state file is under way and nothing has been read.
IoIdle ==
  /\ writer = "idle"
  /\ reader = "idle"
  /\ observed = <<>>

Init ==
  /\ CmdInit
  /\ DbIdle
  /\ CatalogIdle
  /\ IoIdle


-----------------------------------------------------------------------------
(* start *)

\* Mutant: migrations are applied before the saved state is restored.
coldStartSequence_MigrateFirst ==
  <<"applyMigrations", "restoreSavedState", "printReady">>

\* The steps start() runs after a successful startSupabase(), in order.
coldStartSequence == <<"restoreSavedState", "applyMigrations", "printReady">>

\* Mutant: an already running instance gets the saved state restored too.
handleRunningInstance_Restores ==
  <<"restoreSavedState", "applyMigrations", "printReady">>

\* The steps handleRunningInstance() runs, in order.
handleRunningInstance == <<"applyMigrations", "printReady">>

\* The steps of the route the running command is on.
startPlan == IF running THEN handleRunningInstance ELSE coldStartSequence

\* start(): the branch taken on the probe's answer.
startEntry(isUp) == IF isUp THEN handleRunningInstance[1] ELSE "startSupabase"

\* Mutant: the result of startSupabase() is ignored (no process.exit).
startAfterStartSupabase_Ignored(started) == coldStartSequence[1]

\* start(): what follows startSupabase() returning `started`.
startAfterStartSupabase(started) ==
  IF started THEN coldStartSequence[1] ELSE "exit1"

\* Mutant: the two fallback strategies are tried in the other order.
startStrategies_Swapped ==
  <<"supabase start", "supabase start --ignore-health-check",
    "supabase start --exclude logflare">>

\* startSupabase(): the strategies, in the order they are tried.
startStrategies ==
  <<"supabase start", "supabase start --exclude logflare",
    "supabase start --ignore-health-check">>

\* startSupabase(): the result of strategy i exiting with `status`.
startSupabase(i, status) ==
  IF status = 0 THEN "true"
  ELSE IF i < Len(startStrategies) THEN "next" ELSE "false"

\* startSupabase(): what is printed after strategy i exits with `status`.
startSupabaseLog(i, status) ==
  IF status = 0
  THEN IF i = 2 THEN <<Log("success", "Started without analytics")>>
       ELSE IF i = 3 THEN <<Log("success", "Started ignoring health checks")>>
       ELSE <<>>
  ELSE IF i = 1 THEN <<Log("warn", "Standard start failed, trying alternatives...")>>
       ELSE <<>>

\* Mutant: the entries counted are the applied ones ('"Applied": true').
pendingCount_Applied(output) == Cardinality({i \in DOMAIN output : output[i]})

\* applyMigrations(): the number of '"Applied": false' entries of the listing,
\* a listing being the sequence of its entries' Applied flags.
pendingCount(output) == Cardinality({i \in DOMAIN output : ~output[i]})

MigrationOutputs == UNION {[1..k -> BOOLEAN] : k \in 0..MaxMigrations}

\* applyMigrations(): the branch taken on the listing.
applyMigrationsBranch(listed, n) ==
  IF ~listed THEN "migrationUpBlind"
  ELSE IF n > 0 THEN "migrationUpCounted" ELSE "return"

\* Mutant: migrations are applied by resetting the database.
migrationApply_Reset == "supabase db reset"

\* applyMigrations(): the platform operation that applies the migrations,
\* on the counted and on the blind path.
migrationApply == "supabase migration up"

\* Mutant: a failed counted apply throws into the catch of the listing.
countedApplyResult_Caught(status) ==
  IF status # 0 THEN "migrationUpBlind" ELSE "return"

\* Mutant: a failed counted apply is only logged.
countedApplyResult_NonFatal(status) == "return"

\* applyMigrations(): a non-zero exit of the counted apply is fatal.
countedApplyResult(status) == IF status # 0 THEN "exit1" ELSE "return"

\* Mutant: the blind apply is as fatal as the counted one.
blindApplyResult_Fatal(status) == IF status # 0 THEN "exit1" ELSE "return"

\* applyMigrations(): the blind apply never aborts the command.
blindApplyResult(status) == "return"

\* Mutant: a missing state file is treated as an error.
restoreSavedStateBranch_MissingFatal(exists) ==
  IF exists THEN "dockerCp" ELSE "exit1"

\* restoreSavedState(): restore when a state file exists, else go on.
restoreSavedStateBranch(exists) == IF exists THEN "dockerCp" ELSE "return"

StartCmd ==
  /\ pc \in {"idle", "done"}
  /\ \E queryOk \in BOOLEAN :
       LET isUp == isRunning(queryOk, containers) IN
       /\ running' = isUp
       /\ ops' = <<Op("docker ps", queryOk)>>
       /\ logs' = <<Log("info", "Starting Supabase with stateful development...")>>
                  \o (IF isUp THEN <<Log("success", "Supabase already running")>>
                      ELSE <<Log("info", "Starting Supabase...")>>)
       /\ Goto(startEntry(isUp))
  /\ cmd' = "start"
  /\ attempt' = 1
  /\ tableFlags' = <<>>
  /\ listing' = <<>>
  /\ UNCHANGED <<files, containers, clock, prevState>>
  /\ UNCHANGED dbVars
  /\ UNCHANGED catalogVars
  /\ UNCHANGED ioVars

StartSupabase ==
  /\ pc = "startSupabase"
  /\ \E status \in ExitStatuses :
       LET res == startSupabase(attempt, status) IN
       /\ ops' = Append(ops, Op(startStrategies[attempt], status = 0))
       /\ containers' = IF status = 0 THEN containers \cup {containerName}
                        ELSE containers
       /\ IF res = "next"
          THEN /\ attempt' = attempt + 1
               /\ logs' = logs \o startSupabaseLog(attempt, status)
               /\ UNCHANGED <<pc, exitCode>>
          ELSE /\ attempt' = attempt
               /\ logs' = logs \o startSupabaseLog(attempt, status)
                          \o (IF startAfterStartSupabase(res = "true") = "exit1"
                              THEN <<Log("error", "Failed to start Supabase")>>
                              ELSE <<>>)
               /\ Goto(startAfterStartSupabase(res = "true"))
  /\ UNCHANGED <<cmd, running, tableFlags, files, clock, prevState, listing>>
  /\ UNCHANGED dbVars
  /\ UNCHANGED catalogVars
  /\ UNCHANGED ioVars

\* Mutant: with the state file missing, the backup is restored instead.
restoreSource_BackupFallback(f) ==
  IF fileExists(f, stateFile) THEN stateFile ELSE backupFile

\* stateExists() and restoreState(): the path that is looked for and copied.
restoreSource(f) == stateFile

RestoreSavedState ==
  /\ pc = "restoreSavedState"
  /\ LET exists == fileExists(files, restoreSource(files))
         branch == restoreSavedStateBranch(exists)
     IN
       /\ logs' = Append(logs, IF exists
                               THEN Log("info", "Found saved state - restoring...")
                               ELSE Log("info", "No saved state found"))
       /\ Goto(IF branch = "return" THEN After(startPlan, "restoreSavedState")
               ELSE branch)
  /\ UNCHANGED <<cmd, running, attempt, tableFlags, ops, files, containers,
                 clock, prevState, listing>>
  /\ UNCHANGED dbVars
  /\ UNCHANGED catalogVars
  /\ UNCHANGED ioVars

\* Mutant: an error of the restore ends start with exit code 1.
restoreSavedStateCatch_Fatal == "exit1"

\* restoreSavedState(): after the catch, start goes on with its next step.
restoreSavedStateCatch == After(startPlan, "restoreSavedState")

\* restoreState(): docker cp of the state file; a failure is thrown to
\* restoreSavedState(), which warns and goes on.
RestoreCopy ==
  /\ pc = "dockerCp"
  /\ \E ok \in BOOLEAN :
       /\ ops' = Append(ops, OpArg("docker cp", ok, restoreSource(files)))
       /\ IF ok
          THEN /\ logs' = logs
               /\ Goto("psqlFile")
          ELSE /\ logs' = Append(logs, Log("warn", "State restoration had some errors"))
               /\ Goto(restoreSavedStateCatch)
  /\ UNCHANGED <<cmd, running, attempt, tableFlags, files, containers, clock,
                 prevState, listing>>
  /\ UNCHANGED dbVars
  /\ UNCHANGED catalogVars
  /\ UNCHANGED ioVars

\* restoreState(): psql -f of the copied file; its errors are swallowed.
RestoreExec ==
  /\ pc = "psqlFile"
  /\ \E ok \in BOOLEAN :
       /\ ok => containerName \in containers
       /\ ops' = Append(ops, Op("psql -f /tmp/state.sql", ok))
  /\ logs' = Append(logs, Log("success", "Previous session restored!"))
  /\ Goto(After(startPlan, "restoreSavedState"))
  /\ UNCHANGED <<cmd, running, attempt, tableFlags, files, containers, clock,
                 prevState, listing>>
  /\ UNCHANGED dbVars
  /\ UNCHANGED catalogVars
  /\ UNCHANGED ioVars

ApplyMigrations ==
  /\ pc = "applyMigrations"
  /\ \E listed \in BOOLEAN, out \in MigrationOutputs :
       LET n == pendingCount(out)
           branch == applyMigrationsBranch(listed, n)
       IN
       /\ listed \/ out = <<>>
       /\ listing' = out
       /\ ops' = Append(ops, Op("supabase migration list", listed))
       /\ logs' = Append(logs, Log("info", "Checking for pending migrations..."))
            \o (IF branch = "migrationUpBlind"
                THEN <<Log("dim", "Could not check migration status, attempting to apply...")>>
                ELSE IF branch = "migrationUpCounted"
                THEN <<LogN("info", "Found pending migration(s)", n),
                       Log("info", "Applying migrations on top of existing data...")>>
                ELSE <<Log("success", "No pending migrations")>>)
       /\ Goto(IF branch = "return" THEN After(startPlan, "applyMigrations")
               ELSE branch)
  /\ UNCHANGED <<cmd, running, attempt, tableFlags, files, containers, clock,
                 prevState>>
  /\ UNCHANGED dbVars
  /\ UNCHANGED catalogVars
  /\ UNCHANGED ioVars

MigrationUpCounted ==
  /\ pc = "migrationUpCounted"
  /\ \E status \in ExitStatuses :
       LET res == countedApplyResult(status) IN
       /\ ops' = Append(ops, OpArg(migrationApply, status = 0, "counted"))
       /\ logs' = Append(logs, IF res = "exit1" THEN Log("error", "Migration failed")
                               ELSE Log("success", "Migrations applied"))
       /\ Goto(IF res = "return" THEN After(startPlan, "applyMigrations") ELSE res)
  /\ UNCHANGED <<cmd, running, attempt, tableFlags, files, containers, clock,
                 prevState, listing>>
  /\ UNCHANGED dbVars
  /\ UNCHANGED catalogVars
  /\ UNCHANGED ioVars

MigrationUpBlind ==
  /\ pc = "migrationUpBlind"
  /\ \E status \in ExitStatuses :
       LET res == blindApplyResult(status) IN
       /\ ops' = Append(ops, OpArg(migrationApply, status = 0, "blind"))
       /\ logs' = IF status = 0
                  THEN Append(logs, Log("success", "Migrations applied"))
                  ELSE logs
       /\ Goto(IF res = "return" THEN After(startPlan, "applyMigrations") ELSE res)
  /\ UNCHANGED <<cmd, running, attempt, tableFlags, files, containers, clock,
                 prevState, listing>>
  /\ UNCHANGED dbVars
  /\ UNCHANGED catalogVars
  /\ UNCHANGED ioVars

PrintReady ==
  /\ pc = "printReady"
  /\ logs' = Append(logs, Log("success", "Ready for development!"))
  /\ Goto(After(startPlan, "printReady"))
  /\ UNCHANGED <<cmd, running, attempt, tableFlags, ops, files, containers,
                 clock, prevState, listing>>
  /\ UNCHANGED dbVars
  /\ UNCHANGED catalogVars
  /\ UNCHANGED ioVars

-----------------------------------------------------------------------------
(* stop *)

\* Mutant: the environment is stopped before the tokens are cleared.
stopSequence_StopFirst == <<"saveState", "supabaseStop", "clearAuthTokens">>

\* The steps stop() runs once the probe has answered running, in order.
stopSequence == <<"saveState", "clearAuthTokens", "supabaseStop">>

\* Mutant: stop() does not look at the probe's answer.
stopEntry_Unguarded(isUp) == stopSequence[1]

\* stop(): the branch taken on the probe's answer.
stopEntry(isUp) == IF isUp THEN stopSequence[1] ELSE "exit0"

\* Mutant: a failed save makes stop() return without tearing down.
stopAfterSaveState_Return(threw) ==
  IF threw THEN "exit0" ELSE After(stopSequence, "saveState")

\* Mutant: a failed save is fatal (process.exit(1) in the catch).
stopAfterSaveState_Fatal(threw) ==
  IF threw THEN "exit1" ELSE After(stopSequence, "saveState")

\* stop(): what follows saveState(), which returned or threw; the catch
\* logs the error and lets the command go on.
stopAfterSaveState(threw) == After(stopSequence, "saveState")

\* Mutant: stop() gives up when the tokens could not be cleared.
stopAfterClearAuthTokens_Fatal(cleared) ==
  IF cleared THEN After(stopSequence, "clearAuthTokens") ELSE "exit1"

\* stop(): what follows clearAuthTokens() returning `cleared`; either way
\* the command goes on.
stopAfterClearAuthTokens(cleared) == After(stopSequence, "clearAuthTokens")

\* stop(): what is printed when saveState() returned or threw.
stopSaveLog(threw) ==
  IF threw THEN Log("error", "Failed to save state") ELSE Log("success", "State saved")

\* Mutant: the state file is renamed to the backup path, not copied.
backupExisting_Renamed(f) ==
  IF fileExists(f, stateFile) THEN (backupFile :> f[stateFile]) ELSE f

\* Mutant: no backup is taken.
backupExisting_Skipped(f) == f

\* saveState(): the existing state file is copied to the backup path.
backupExisting(f) ==
  IF fileExists(f, stateFile) THEN copyFile(f, stateFile, backupFile) ELSE f

\* What table discovery can return: the export targets, in catalog order.
DiscoveryResults ==
  {<<>>, <<"auth.users">>, <<"auth.users", "public.todos">>}

\* Mutant: the empty-list early return is missing.
saveStateAfterDiscovery_NoReturn(flags) == "pgDump"

\* saveState(): with no export target it returns before the dump.
saveStateAfterDiscovery(flags) == IF flags = <<>> THEN "return" ELSE "pgDump"

\* saveState(): the composed snapshot: the banner's timestamp and the dump
\* of the export targets.
Snapshot(timestamp, flags) == [generated |-> timestamp, tables |-> flags]

\* saveState(): the composed snapshot is written to the state file.
saveStateWrite(f, sql) == writeFile(f, stateFile, sql)

StopCmd ==
  /\ pc \in {"idle", "done"}
  /\ clock < MaxClock
  /\ \E queryOk \in BOOLEAN :
       LET isUp == isRunning(queryOk, containers) IN
       /\ running' = isUp
       /\ ops' = <<Op("docker ps", queryOk)>>
       /\ logs' = IF isUp
                  THEN <<Log("info", "Saving state and stopping Supabase..."),
                         Log("info", "Saving local database state...")>>
                  ELSE <<Log("warn", "Supabase is not running")>>
       /\ Goto(stopEntry(isUp))
  /\ cmd' = "stop"
  /\ attempt' = 1
  /\ tableFlags' = <<>>
  /\ listing' = <<>>
  /\ UNCHANGED <<files, containers, clock, prevState>>
  /\ UNCHANGED dbVars
  /\ UNCHANGED catalogVars
  /\ UNCHANGED ioVars

SaveStateBackup ==
  /\ pc = "saveState"
  /\ files' = backupExisting(files)
  /\ ops' = IF fileExists(files, stateFile)
            THEN Append(ops, OpArg("fs.copyFile", TRUE, backupFile))
            ELSE ops
  /\ logs' = Append(logs, Log("dim", "Discovering tables to export..."))
  /\ Goto("discoverTables")
  /\ UNCHANGED <<cmd, running, attempt, tableFlags, containers, clock, prevState, listing>>
  /\ UNCHANGED dbVars
  /\ UNCHANGED catalogVars
  /\ UNCHANGED ioVars

SaveStateDiscover ==
  /\ pc = "discoverTables"
  /\ \E ok \in BOOLEAN, flags \in DiscoveryResults :
       /\ ok => containerName \in containers
       /\ ops' = Append(ops, Op("psql -c tablesQuery", ok))
       /\ IF ~ok
          THEN /\ tableFlags' = tableFlags
               /\ logs' = Append(logs, stopSaveLog(TRUE))
               /\ Goto(stopAfterSaveState(TRUE))
          ELSE /\ tableFlags' = flags
               /\ IF saveStateAfterDiscovery(flags) = "return"
                  THEN /\ logs' = logs \o <<Log("warn", "No tables found to export"),
                                            stopSaveLog(FALSE)>>
                       /\ Goto(stopAfterSaveState(FALSE))
                  ELSE /\ logs' = logs
                       /\ Goto(saveStateAfterDiscovery(flags))
  /\ UNCHANGED <<cmd, running, attempt, files, containers, clock, prevState, listing>>
  /\ UNCHANGED dbVars
  /\ UNCHANGED catalogVars
  /\ UNCHANGED ioVars

\* execSync's maxBuffer for pg_dump, in bytes.
maxBuffer == 50 * 1024 * 1024

\* The sizes of the dump pg_dump writes to its stdout.
DumpSizes == {1024, maxBuffer, maxBuffer + 1}

\* What execSync reports next to the exit status of pg_dump.
pgDumpError(size) == IF size > maxBuffer THEN "ENOBUFS" ELSE ""

\* Mutant: output beyond maxBuffer is cut off and the call returns.
pgDumpThrows_Truncates(status, size) == status # 0

\* execSync of pg_dump throws on a non-zero exit and on output beyond
\* maxBuffer.
pgDumpThrows(status, size) == status # 0 \/ size > maxBuffer

SaveStateDump ==
  /\ pc = "pgDump"
  /\ \E status \in ExitStatuses, size \in DumpSizes :
       LET ok == ~pgDumpThrows(status, size) IN
       /\ status = 0 => containerName \in containers
       /\ IF ok
          THEN /\ clock' = clock + 1
               /\ files' = saveStateWrite(files, Snapshot(clock', tableFlags))
               /\ prevState' = [p \in DOMAIN files \cap {stateFile} |-> files[p]]
               /\ ops' = ops \o <<OpArg("pg_dump", TRUE, pgDumpError(size)),
                                  OpArg("fs.writeFile", TRUE, stateFile)>>
          ELSE /\ ops' = Append(ops, OpArg("pg_dump", FALSE, pgDumpError(size)))
               /\ UNCHANGED <<clock, files, prevState, listing>>
       /\ logs' = Append(logs, stopSaveLog(~ok))
       /\ Goto(stopAfterSaveState(~ok))
  /\ UNCHANGED <<cmd, running, attempt, tableFlags, containers, listing>>
  /\ UNCHANGED dbVars
  /\ UNCHANGED catalogVars
  /\ UNCHANGED ioVars

ClearAuthTokens ==
  /\ pc = "clearAuthTokens"
  /\ \E ok \in BOOLEAN :
       /\ ok => containerName \in containers
       /\ ops' = Append(ops, Op("psql -c DELETE FROM auth.refresh_tokens", ok))
       /\ logs' = logs \o <<Log("info", "Clearing auth tokens..."),
                            IF ok THEN Log("success", "Refresh tokens cleared")
                            ELSE Log("warn", "Could not clear refresh tokens (this is okay)")>>
       /\ Goto(stopAfterClearAuthTokens(ok))
  /\ UNCHANGED <<cmd, running, attempt, tableFlags, files, containers, clock,
                 prevState, listing>>
  /\ UNCHANGED dbVars
  /\ UNCHANGED catalogVars
  /\ UNCHANGED ioVars

SupabaseStop ==
  /\ pc = "supabaseStop"
  /\ \E status \in ExitStatuses :
       /\ ops' = Append(ops, Op("supabase stop", status = 0))
       /\ containers' = IF status = 0 THEN containers \ {containerName}
                        ELSE containers
  /\ logs' = logs \o <<Log("info", "Stopping Supabase..."),
                       Log("success", "Supabase stopped cleanly"),
                       Log("plain", "State saved and auth tokens cleared")>>
  /\ Goto(After(stopSequence, "supabaseStop"))
  /\ UNCHANGED <<cmd, running, attempt, tableFlags, files, clock, prevState, listing>>
  /\ UNCHANGED dbVars
  /\ UNCHANGED catalogVars
  /\ UNCHANGED ioVars

-----------------------------------------------------------------------------
(* The environment, between commands: containers of this or another project *)
(* are started or stopped outside the tool.                                 *)

EnvContainers ==
  /\ pc \in {"idle", "done"}
  /\ \E n \in ContainerNames :
       containers' = IF n \in containers THEN containers \ {n}
                     ELSE containers \cup {n}
  /\ UNCHANGED <<pc, cmd, running, attempt, tableFlags, ops, logs, exitCode,
                 files, clock, prevState, listing>>
  /\ UNCHANGED dbVars
  /\ UNCHANGED catalogVars
  /\ UNCHANGED ioVars

Next ==
  \/ StartCmd
  \/ StartSupabase
  \/ RestoreSavedState
  \/ RestoreCopy
  \/ RestoreExec
  \/ ApplyMigrations
  \/ MigrationUpCounted
  \/ MigrationUpBlind
  \/ PrintReady
  \/ StopCmd
  \/ SaveStateBackup
  \/ SaveStateDiscover
  \/ SaveStateDump
  \/ ClearAuthTokens
  \/ SupabaseStop
  \/ EnvContainers

Spec == Init /\ [][Next]_vars

\* A step of the command that is running.  The commands are synchronous:
\* every external call they make returns, and the next step follows.
CommandStep ==
  \/ StartSupabase
  \/ RestoreSavedState
  \/ RestoreCopy
  \/ RestoreExec
  \/ ApplyMigrations
  \/ MigrationUpCounted
  \/ MigrationUpBlind
  \/ PrintReady
  \/ SaveStateBackup
  \/ SaveStateDiscover
  \/ SaveStateDump
  \/ ClearAuthTokens
  \/ SupabaseStop

FairSpec == Spec /\ WF_vars(CommandStep)

\* Between two commands the state file is removed by hand; the backup stays.
EnvRemoveStateFile ==
  /\ pc \in {"idle", "done"}
  /\ stateExists(files)
  /\ files' = [p \in DOMAIN files \ {stateFile} |-> files[p]]
  /\ UNCHANGED <<pc, cmd, running, attempt, tableFlags, ops, logs, exitCode,
                 containers, clock, prevState, listing>>
  /\ UNCHANGED dbVars
  /\ UNCHANGED catalogVars
  /\ UNCHANGED ioVars

\* The commands, with a state file that can go missing.
SpecRemoval == Init /\ [][Next \/ EnvRemoveStateFile]_vars

-----------------------------------------------------------------------------
(* The snapshot's content: what saveState writes and what restoreState     *)
(* replays.  SQL text is a sequence of tokens; ";" and "\n" are tokens of   *)
(* their own, because the rewrite of saveState is sensitive to both.        *)

MaxRows == 2

MaxReplays == 2

\* Captured tables, in the order of the discovery query (schema, then name).
\* auth.users has a primary key; public.events has no unique constraint.
TableOrder == <<"auth.users", "public.events">>

KeyedTables == {"auth.users"}

TableKeys == [t \in {"auth.users", "public.events"} |->
                IF t = "auth.users" THEN {"1", "2"} ELSE {"1"}]

\* Text values of a column: plain, with a semicolon inside a line, and with a
\* semicolon that ends a line.
Values == {<<"a">>, <<"a", ";", "b">>, <<"a", ";", "\n", "b">>}

Range(seq) == {seq[i] : i \in DOMAIN seq}

RowKeys(rows) == {rows[i].key : i \in DOMAIN rows}

RowSeqs(t) ==
  LET all == UNION {[1..n -> [key : TableKeys[t], val : Values]] : n \in 0..MaxRows}
  IN  IF t \in KeyedTables
      THEN {rows \in all : Cardinality(RowKeys(rows)) = Len(rows)}
      ELSE all

\* The databases a session can hold when it is stopped.
Databases ==
  {[t \in Range(TableOrder) |-> [keyed |-> t \in KeyedTables, rows |-> r[t]]] :
     r \in {q \in [Range(TableOrder) -> UNION {RowSeqs(t) : t \in Range(TableOrder)}] :
              \A t \in Range(TableOrder) : q[t] \in RowSeqs(t)}}

RECURSIVE Flatten(_)
Flatten(ss) == IF ss = <<>> THEN <<>> ELSE Head(ss) \o Flatten(Tail(ss))

\* The tables the discovery query lists, as the flags given to pg_dump.
discoveredTables(d) == SelectSeq(TableOrder, LAMBDA t : t \in DOMAIN d)

CreateStmt(t) == <<"CREATE TABLE ", t, ";", "\n">>

InsertStmt(t, row) ==
  <<"INSERT INTO ", t, " VALUES (", row.key, ", ", "'">> \o row.val
    \o <<"'", ")", ";", "\n">>

PrimaryKeyStmt(t) == <<"ALTER TABLE ONLY ", t, " ADD PRIMARY KEY", ";", "\n">>

\* pg_dump --inserts: table definitions, then one INSERT per row, then the
\* constraints.
rawSql(d, flags) ==
  Flatten([i \in DOMAIN flags |-> CreateStmt(flags[i])])
    \o Flatten([i \in DOMAIN flags |->
         Flatten([j \in DOMAIN d[flags[i]].rows |->
                    InsertStmt(flags[i], d[flags[i]].rows[j])])])
    \o Flatten([i \in DOMAIN flags |->
         IF d[flags[i]].keyed THEN PrimaryKeyStmt(flags[i]) ELSE <<>>])

Min(S) == CHOOSE x \in S : \A y \in S : x <= y

\* The first position from i on that holds a semicolon, 0 when there is none.
FirstSemicolon(text, i) ==
  LET S == {k \in i..Len(text) : text[k] = ";"}
  IN  IF S = {} THEN 0 ELSE Min(S)

\* ^ and $ under the m flag.
AtLineStart(text, i) == i = 1 \/ text[i - 1] = "\n"

AtLineEnd(text, j) == j = Len(text) \/ text[j + 1] = "\n"

\* /^(INSERT INTO [^;]+);$/m matches at position i: "INSERT INTO " at the
\* start of a line, then everything up to the first semicolon, and that
\* semicolon ends a line.
MatchesAt(text, i) ==
  /\ AtLineStart(text, i)
  /\ text[i] = "INSERT INTO "
  /\ FirstSemicolon(text, i + 1) > i + 1
  /\ AtLineEnd(text, FirstSemicolon(text, i + 1))

\* rawSql.replace(/^(INSERT INTO [^;]+);$/gm, '$1\nON CONFLICT DO NOTHING;'),
\* from position i on: the g flag takes the matches from left to right, each
\* search resuming after the previous match.
RECURSIVE safeSqlFrom(_, _)
safeSqlFrom(text, i) ==
  LET starts == {m \in i..Len(text) : MatchesAt(text, m)}
  IN  IF starts = {} THEN SubSeq(text, i, Len(text))
      ELSE LET m == Min(starts)
               j == FirstSemicolon(text, m + 1)
           IN  SubSeq(text, i, j - 1)
                 \o <<"\n", "ON CONFLICT DO NOTHING", ";">>
                 \o safeSqlFrom(text, j + 1)

safeSql(text) == safeSqlFrom(text, 1)

Timestamps == {"2024-01-01T00:00:00.000Z"}

CommentTokens ==
  {"-- Local Development State Snapshot", "-- Generated: ",
   "-- Disable foreign key checks temporarily",
   "-- Re-enable foreign key checks", "-- Local State Restored"}
    \cup Timestamps

\* Mutant: enforcement is switched back on before the dump and off after it.
sql_DirectivesSwapped(safe, timestamp) ==
  <<"-- Local Development State Snapshot", "\n",
    "-- Generated: ", timestamp, "\n", "\n",
    "-- Disable foreign key checks temporarily", "\n",
    "SET session_replication_role = DEFAULT", ";", "\n", "\n">>
    \o safe
    \o <<"\n", "\n", "-- Re-enable foreign key checks", "\n",
         "SET session_replication_role = replica", ";", "\n", "\n",
         "-- Local State Restored", "\n",
         "DO $$ BEGIN RAISE NOTICE END $$", ";", "\n">>

\* The template literal of saveState around the rewritten dump.
sql(safe, timestamp) ==
  <<"-- Local Development State Snapshot", "\n",
    "-- Generated: ", timestamp, "\n", "\n",
    "-- Disable foreign key checks temporarily", "\n",
    "SET session_replication_role = replica", ";", "\n", "\n">>
    \o safe
    \o <<"\n", "\n", "-- Re-enable foreign key checks", "\n",
         "SET session_replication_role = DEFAULT", ";", "\n", "\n",
         "-- Local State Restored", "\n",
         "DO $$ BEGIN RAISE NOTICE END $$", ";", "\n">>

\* The positions of the quotes of a text.
Quotes(text) == {k \in DOMAIN text : text[k] = "'"}

\* Position i lies inside a string literal (the closing quote included), given
\* the positions of the quotes.
Quoted(quotes, i) == Cardinality({k \in quotes : k < i}) % 2 = 1

Positions(a, b) == [k \in 1..(b - a + 1) |-> a + k - 1]

\* The semicolons outside string literals, from left to right.
Terminators(text) ==
  LET quotes == Quotes(text)
  IN  SelectSeq(Positions(1, Len(text)),
                LAMBDA i : text[i] = ";" /\ ~Quoted(quotes, i))

\* The tokens of a statement at positions a..b: comments and line ends
\* outside literals are dropped.
StatementAt(text, quotes, a, b) ==
  LET kept == SelectSeq(Positions(a, b),
                LAMBDA i : \/ (text[i] # "\n" /\ text[i] \notin CommentTokens)
                           \/ Quoted(quotes, i))
  IN  [k \in DOMAIN kept |-> text[kept[k]]]

\* psql -f splits its input at the semicolons outside string literals.
Statements(text) ==
  LET ends == Terminators(text)
      quotes == Quotes(text)
  IN  [k \in DOMAIN ends |->
         StatementAt(text, quotes, IF k = 1 THEN 1 ELSE ends[k - 1] + 1, ends[k] - 1)]

\* The position of the quote that closes the literal of an INSERT.
LastQuote(st) == CHOOSE i \in DOMAIN st :
                   st[i] = "'" /\ \A k \in DOMAIN st : st[k] = "'" => k <= i

\* The row an INSERT statement carries.
InsertedRow(st) == [key |-> st[4], val |-> SubSeq(st, 7, LastQuote(st) - 1)]

\* One statement against the database.  Every statement commits on its own;
\* a failing one (the table exists already, a second primary key, a
\* duplicate key) changes nothing, and so does an insert that ON CONFLICT DO
\* NOTHING skips.
Execute(d, st) ==
  IF st = <<>> THEN d
  ELSE IF st[1] = "CREATE TABLE "
       THEN IF st[2] \in DOMAIN d THEN d
            ELSE (st[2] :> [keyed |-> FALSE, rows |-> <<>>]) @@ d
  ELSE IF st[1] = "ALTER TABLE ONLY "
       THEN IF /\ st[2] \in DOMAIN d
               /\ ~d[st[2]].keyed
               /\ Cardinality(RowKeys(d[st[2]].rows)) = Len(d[st[2]].rows)
            THEN [d EXCEPT ![st[2]].keyed = TRUE]
            ELSE d
  ELSE IF st[1] = "INSERT INTO "
       THEN IF st[2] \notin DOMAIN d THEN d
            ELSE IF d[st[2]].keyed /\ InsertedRow(st).key \in RowKeys(d[st[2]].rows)
                 THEN d
            ELSE [d EXCEPT ![st[2]].rows = Append(@, InsertedRow(st))]
  ELSE d

RECURSIVE ExecuteAll(_, _)
ExecuteAll(d, sts) ==
  IF sts = <<>> THEN d ELSE ExecuteAll(Execute(d, Head(sts)), Tail(sts))

\* docker exec ... psql -f /tmp/state.sql
psqlFile(d, text) == ExecuteAll(d, Statements(text))

\* A session's database at the time it is stopped.
DbInit ==
  /\ CmdInit
  /\ db \in Databases
  /\ stateSql = <<>>
  /\ savedDb = EmptyDb
  /\ replays = 0
  /\ CatalogIdle
  /\ IoIdle

\* saveState with every external call succeeding: discover, dump, rewrite,
\* compose, write.
SaveState ==
  /\ stateSql = <<>>
  /\ discoveredTables(db) # <<>>
  /\ \E timestamp \in Timestamps :
       stateSql' = sql(safeSql(rawSql(db, discoveredTables(db))), timestamp)
  /\ savedDb' = db
  /\ UNCHANGED <<db, replays>>
  /\ UNCHANGED cmdVars
  /\ UNCHANGED catalogVars
  /\ UNCHANGED ioVars

\* The database is reset between the stop and the next start.
ResetDb ==
  /\ stateSql # <<>>
  /\ replays = 0
  /\ db # EmptyDb
  /\ db' = EmptyDb
  /\ UNCHANGED <<stateSql, savedDb, replays>>
  /\ UNCHANGED cmdVars
  /\ UNCHANGED catalogVars
  /\ UNCHANGED ioVars

\* A row goes missing between the stop and the next start.
DeleteRow ==
  /\ stateSql # <<>>
  /\ replays = 0
  /\ \E t \in DOMAIN db : \E i \in DOMAIN db[t].rows :
       db' = [db EXCEPT ![t].rows =
                SubSeq(@, 1, i - 1) \o SubSeq(@, i + 1, Len(@))]
  /\ UNCHANGED <<stateSql, savedDb, replays>>
  /\ UNCHANGED cmdVars
  /\ UNCHANGED catalogVars
  /\ UNCHANGED ioVars

\* restoreState with the copy and the replay both run.
RestoreState ==
  /\ stateSql # <<>>
  /\ replays < MaxReplays
  /\ db' = psqlFile(db, stateSql)
  /\ replays' = replays + 1
  /\ UNCHANGED <<stateSql, savedDb>>
  /\ UNCHANGED cmdVars
  /\ UNCHANGED catalogVars
  /\ UNCHANGED ioVars

DbNext ==
  \/ SaveState
  \/ ResetDb
  \/ DeleteRow
  \/ RestoreState

SpecDb == DbInit /\ [][DbNext]_vars

-----------------------------------------------------------------------------
(* Table discovery: the catalog query of saveState and the parsing of its   *)
(* output into export targets.  A table name is a sequence of tokens; "_"   *)
(* and "|" are tokens of their own, because LIKE and the parsing are        *)
(* sensitive to them.                                                       *)

MaxTables == 2

MaxDiscoveries == 2

Schemas == {"auth", "public", "storage"}

TableNames ==
  {<<"todos">>, <<"users">>, <<"todos", "x">>, <<"todos", "|", "x">>,
   <<"supabase", "_", "x">>, <<"supabase", "x">>,
   <<"pg", "_", "x">>,
   <<"x", "_", "migrations">>,
   <<"schema", "_", "migrations">>, <<"spatial_ref_sys">>,
   <<"schema", "_", "migrations", "|", "x">>}

CatalogRows == [schema : Schemas, table : TableNames]

\* The tokens in byte order (catalog names compare under the C collation).
\* No token is the beginning of another, so comparing token by token is
\* comparing byte by byte.
ByteOrder ==
  <<"_", "auth", "migrations", "pg", "public", "schema", "spatial_ref_sys",
    "storage", "supabase", "todos", "users", "x", "|">>

Rank(token) == CHOOSE i \in DOMAIN ByteOrder : ByteOrder[i] = token

RECURSIVE NameLess(_, _)
NameLess(a, b) ==
  IF b = <<>> THEN FALSE
  ELSE IF a = <<>> THEN TRUE
  ELSE IF Head(a) = Head(b) THEN NameLess(Tail(a), Tail(b))
  ELSE Rank(Head(a)) < Rank(Head(b))

\* ORDER BY schemaname, tablename
RowLess(r, q) ==
  \/ Rank(r.schema) < Rank(q.schema)
  \/ r.schema = q.schema /\ NameLess(r.table, q.table)

\* tablename LIKE '<token>_%': the token, then any one character, then
\* anything ("_" in a LIKE pattern stands for any single character).
LikePrefix(name, token) == Len(name) >= 2 /\ name[1] = token

\* tablename LIKE '%_<token>': anything, then any one character, then the
\* token.
LikeSuffix(name, token) == Len(name) >= 2 /\ name[Len(name)] = token

\* The WHERE clause of tablesQuery.
Where(r) ==
  /\ r.schema \in {"public", "auth"}
  /\ ~LikePrefix(r.table, "supabase")
  /\ ~LikeSuffix(r.table, "migrations")
  /\ ~LikePrefix(r.table, "pg")
  /\ r.table \notin {<<"schema", "_", "migrations">>, <<"spatial_ref_sys">>}

\* The orders in which a scan of pg_tables can deliver its rows.
Scans(rows) == {scan \in [1..Cardinality(rows) -> rows] : Range(scan) = rows}

InsertSorted(r, sorted) ==
  LET k == Cardinality({i \in DOMAIN sorted : RowLess(sorted[i], r)})
  IN  SubSeq(sorted, 1, k) \o <<r>> \o SubSeq(sorted, k + 1, Len(sorted))

RECURSIVE OrderBy(_)
OrderBy(rows) ==
  IF rows = <<>> THEN <<>> ELSE InsertSorted(Head(rows), OrderBy(Tail(rows)))

\* Mutant: the query has no ORDER BY.
tablesQuery_Unordered(scan) == SelectSeq(scan, Where)

\* The rows tablesQuery returns from a scan.
tablesQuery(scan) == OrderBy(SelectSeq(scan, Where))

\* psql -t: one line per row, the columns separated by "|", then an empty
\* line; the result is the output as split('\n') cuts it.
tablesOutput(rows) ==
  [i \in DOMAIN rows |-> <<" ", rows[i].schema, " ", "|", " ">> \o rows[i].table]
    \o << <<>> >>

Max(S) == CHOOSE x \in S : \A y \in S : y <= x

\* String.trim
trim(line) ==
  LET inked == {i \in DOMAIN line : line[i] # " "}
  IN  IF inked = {} THEN <<>> ELSE SubSeq(line, Min(inked), Max(inked))

\* line.split('|')
RECURSIVE split(_)
split(line) ==
  LET pipes == {i \in DOMAIN line : line[i] = "|"}
  IN  IF pipes = {} THEN <<line>>
      ELSE <<SubSeq(line, 1, Min(pipes) - 1)>>
             \o split(SubSeq(line, Min(pipes) + 1, Len(line)))

\* const [schema, table] = line.split('|').map(s => s.trim())
tableFlag(line) ==
  [schema |-> trim(split(line)[1]), table |-> trim(split(line)[2])]

\* tablesOutput.split('\n').map(trim).filter(line && includes('|')).map(...)
parseTableFlags(lines) ==
  LET trimmed == [i \in DOMAIN lines |-> trim(lines[i])]
      kept == SelectSeq(trimmed, LAMBDA l : l # <<>> /\ "|" \in Range(l))
  IN  [i \in DOMAIN kept |-> tableFlag(kept[i])]

CreateTable ==
  /\ Cardinality(catalog) < MaxTables
  /\ \E r \in CatalogRows \ catalog : catalog' = catalog \cup {r}
  /\ targets' = <<>>
  /\ prevTargets' = <<>>
  /\ discoveries' = 0
  /\ UNCHANGED cmdVars
  /\ UNCHANGED dbVars
  /\ UNCHANGED ioVars

DropTable ==
  /\ \E r \in catalog : catalog' = catalog \ {r}
  /\ targets' = <<>>
  /\ prevTargets' = <<>>
  /\ discoveries' = 0
  /\ UNCHANGED cmdVars
  /\ UNCHANGED dbVars
  /\ UNCHANGED ioVars

\* The discovery of saveState, with the query succeeding.
DiscoverTables ==
  /\ discoveries < MaxDiscoveries
  /\ \E scan \in Scans(catalog) :
       targets' = parseTableFlags(tablesOutput(tablesQuery(scan)))
  /\ prevTargets' = targets
  /\ discoveries' = discoveries + 1
  /\ UNCHANGED catalog
  /\ UNCHANGED cmdVars
  /\ UNCHANGED dbVars
  /\ UNCHANGED ioVars

CatalogNext ==
  \/ CreateTable
  \/ DropTable
  \/ DiscoverTables

SpecCatalog == Init /\ [][CatalogNext]_vars

-----------------------------------------------------------------------------
(* The state file under a concurrent reader: saveState of a stop writes it  *)
(* while restoreState of a start copies it.  fs.writeFile opens the path    *)
(* with flag 'w', which empties the file, and then writes the data piece by *)
(* piece; a file's content is the sequence of the pieces it holds.          *)

Chunks == 3

\* The complete text of the snapshot taken at `timestamp`.
CompleteSnapshot(timestamp) ==
  [part \in 1..Chunks |-> [generated |-> timestamp, part |-> part]]

\* saveState: the backup copy, taken before discovery and dump.
WriterBackup ==
  /\ writer = "idle"
  /\ clock < MaxClock
  /\ files' = backupExisting(files)
  /\ writer' = "open"
  /\ UNCHANGED <<pc, cmd, running, attempt, tableFlags, ops, logs, exitCode,
                 containers, clock, prevState, listing>>
  /\ UNCHANGED <<reader, observed>>
  /\ UNCHANGED dbVars
  /\ UNCHANGED catalogVars

\* fs.writeFile: the state file is opened and thereby emptied.
WriterOpen ==
  /\ writer = "open"
  /\ clock' = clock + 1
  /\ files' = saveStateWrite(files, <<>>)
  /\ writer' = "write"
  /\ UNCHANGED <<pc, cmd, running, attempt, tableFlags, ops, logs, exitCode,
                 containers, prevState, listing>>
  /\ UNCHANGED <<reader, observed>>
  /\ UNCHANGED dbVars
  /\ UNCHANGED catalogVars

\* fs.writeFile: the next piece of the snapshot is written.
WriterChunk ==
  /\ writer = "write"
  /\ LET written == Len(files[stateFile]) + 1 IN
       /\ files' = saveStateWrite(files,
                     SubSeq(CompleteSnapshot(clock), 1, written))
       /\ writer' = IF written = Chunks THEN "idle" ELSE "write"
  /\ UNCHANGED <<pc, cmd, running, attempt, tableFlags, ops, logs, exitCode,
                 containers, clock, prevState, listing>>
  /\ UNCHANGED <<reader, observed>>
  /\ UNCHANGED dbVars
  /\ UNCHANGED catalogVars

\* restoreState: the state file exists, so it will be copied.
ReaderExists ==
  /\ reader = "idle"
  /\ stateExists(files)
  /\ reader' = "copy"
  /\ UNCHANGED <<writer, observed>>
  /\ UNCHANGED cmdVars
  /\ UNCHANGED dbVars
  /\ UNCHANGED catalogVars

\* restoreState: docker cp reads the state file as it is now.
ReaderCopy ==
  /\ reader = "copy"
  /\ observed' = <<files[stateFile]>>
  /\ reader' = "idle"
  /\ UNCHANGED writer
  /\ UNCHANGED cmdVars
  /\ UNCHANGED dbVars
  /\ UNCHANGED catalogVars

FileNext ==
  \/ WriterBackup
  \/ WriterOpen
  \/ WriterChunk
  \/ ReaderExists
  \/ ReaderCopy

SpecFile == Init /\ [][FileNext]_vars

-----------------------------------------------------------------------------
(* Properties.  Helper predicates over the running command's record.       *)

Invoked(name) == \E i \in DOMAIN ops : ops[i].op = name

Succeeded(name) == \E i \in DOMAIN ops : ops[i].op = name /\ ops[i].ok

Failed(name) == \E i \in DOMAIN ops : ops[i].op = name /\ ~ops[i].ok

Logged(msg) == \E i \in DOMAIN logs : logs[i].msg = msg

\* The position of the first invocation of an operation (0 when not invoked).
FirstIndex(name) ==
  IF Invoked(name) THEN CHOOSE i \in DOMAIN ops :
                          /\ ops[i].op = name
                          /\ \A j \in 1..(i - 1) : ops[j].op # name
  ELSE 0

RestoreCp == "docker cp"

RestoreSql == "psql -f /tmp/state.sql"

MigrationList == "supabase migration list"

MigrationUp == "supabase migration up"

Discovery == "psql -c tablesQuery"

Sanitize == "psql -c DELETE FROM auth.refresh_tokens"

PlatformStop == "supabase stop"

ExportFailed == Failed(Discovery) \/ Failed("pg_dump")

\* The content of the state file path, as a function on the paths that exist.
StateContent == [p \in DOMAIN files \cap {stateFile} |-> files[p]]

C2_NoRestoreOnWarmAttach ==
  (cmd = "start" /\ running)
    => /\ ~Invoked(RestoreCp)
       /\ ~Invoked(RestoreSql)
       /\ pc \notin {"startSupabase", "restoreSavedState", "dockerCp", "psqlFile"}
       /\ Len(ops) >= 2 => ops[2].op = MigrationList

C2_Witness ==
  /\ cmd = "start" /\ running /\ stateExists(files)
  /\ pc = "done" /\ Invoked(MigrationList)

C6_BackupRotation ==
  (cmd = "stop" /\ Succeeded("fs.writeFile"))
    => /\ fileExists(files, stateFile)
       /\ files[stateFile] = Snapshot(clock, tableFlags)
       /\ IF fileExists(prevState, stateFile)
          THEN /\ fileExists(files, backupFile)
               /\ files[backupFile] = prevState[stateFile]
          ELSE ~fileExists(files, backupFile)

C6_Witness ==
  /\ cmd = "stop" /\ Succeeded("fs.writeFile")
  /\ fileExists(prevState, stateFile)
  /\ fileExists(files, backupFile)
  /\ files[backupFile] = prevState[stateFile]
  /\ files[backupFile] # files[stateFile]
  /\ files[stateFile].generated = clock

\* C7 (as stated): after any sequence of commands (none is in progress),
\* whenever a backup file exists, its content is what the state file path held
\* just before the most recent write of the state file.
C7_BackupIsPrecedingSnapshot ==
  (pc = "done" /\ fileExists(files, backupFile))
    => /\ fileExists(prevState, stateFile)
       /\ files[backupFile] = prevState[stateFile]

\* C8: the state file path changes (is created or gets other content) only
\* in the step where pg_dump succeeded for a non-empty list of export
\* targets; an empty discovery, a failed discovery and a failed dump leave it
\* exactly as it was.
C8_StateFileChangesOnlyOnExport ==
  [][StateContent' # StateContent
       => /\ pc = "pgDump"
          /\ tableFlags # <<>>
          /\ Succeeded(Discovery)
          /\ \E i \in DOMAIN ops' : ops'[i].op = "pg_dump" /\ ops'[i].ok]_vars

C8_Witness ==
  /\ cmd = "stop" /\ pc = "done"
  /\ Succeeded(Discovery) /\ tableFlags = <<>> /\ ~Invoked("pg_dump")
  /\ fileExists(files, stateFile)
  /\ files[stateFile].generated = clock

\* The documented order of the start strategies.
C9_Order ==
  <<"supabase start", "supabase start --exclude logflare",
    "supabase start --ignore-health-check">>

C9_IsStrategy(o) == \E i \in DOMAIN C9_Order : o.op = C9_Order[i]

\* C9: the start operations a command has invoked are an initial part of
\* default, --exclude logflare, --ignore-health-check in that order; every one
\* but the last exited non-zero (so none follows a zero exit); and once one
\* exited zero the flow is at, or has passed, the restore step.
C9_StrategyLadder ==
  cmd = "start"
    => LET S == SelectSeq(ops, C9_IsStrategy) IN
       /\ Len(S) <= Len(C9_Order)
       /\ \A i \in DOMAIN S : S[i].op = C9_Order[i]
       /\ \A i \in DOMAIN S : i < Len(S) => ~S[i].ok
       /\ (Len(S) > 0 /\ S[Len(S)].ok)
            => \/ pc = "restoreSavedState"
               \/ Logged("Found saved state - restoring...")
               \/ Logged("No saved state found")

C9_Witness ==
  /\ cmd = "start"
  /\ Failed("supabase start")
  /\ Succeeded("supabase start --exclude logflare")
  /\ ~Invoked("supabase start --ignore-health-check")
  /\ Logged("Started without analytics")
  /\ Succeeded(RestoreCp)

\* C10: when all three start strategies exited non-zero, start has ended
\* with exit code 1 after reporting the failure, and invoked no restore
\* operation, no migration listing and no migration apply, and Ready was not
\* printed.
C10_StartupExhausted ==
  (cmd = "start" /\ \A i \in DOMAIN C9_Order : Failed(C9_Order[i]))
    => /\ pc = "done" /\ exitCode = 1
       /\ Logged("Failed to start Supabase")
       /\ ~Invoked(RestoreCp) /\ ~Invoked(RestoreSql)
       /\ ~Invoked(MigrationList) /\ ~Invoked(MigrationUp)
       /\ ~Logged("Ready for development!")
       /\ ops[Len(ops)].op = C9_Order[3]

C10_Witness ==
  /\ cmd = "start" /\ pc = "done" /\ exitCode = 1
  /\ \A i \in DOMAIN C9_Order : Failed(C9_Order[i])
  /\ stateExists(files)

\* The number of invocations of an operation.
Count(name) == Cardinality({i \in DOMAIN ops : ops[i].op = name})

\* The number of entries of the migration listing that are not applied.
Unapplied == Cardinality({i \in DOMAIN listing : listing[i] = FALSE})

\* The invocations of migration up from the counted and from the blind path.
AppliedFrom(path, ok) ==
  \E i \in DOMAIN ops : ops[i].arg = path /\ ops[i].ok = ok

\* Some start strategy has exited zero.
StartSucceeded == \E i \in DOMAIN ops : C9_IsStrategy(ops[i]) /\ ops[i].ok

\* C11: when the listing succeeded with n unapplied entries: with n = 0
\* migration up is never invoked; with n > 0 it is invoked exactly once (it is
\* the very next step), the count n is printed, and a zero exit of the apply is
\* followed by the success message.
C11_CountedApply ==
  (cmd = "start" /\ Succeeded(MigrationList))
    => /\ Unapplied = 0
            => /\ ~Invoked(MigrationUp)
               /\ pc \notin {"migrationUpCounted", "migrationUpBlind"}
       /\ Unapplied > 0
            => /\ Count(MigrationUp) = (IF pc = "migrationUpCounted" THEN 0 ELSE 1)
               /\ \E i \in DOMAIN logs :
                    /\ logs[i].msg = "Found pending migration(s)"
                    /\ logs[i].arg = Unapplied
               /\ Succeeded(MigrationUp) => Logged("Migrations applied")

C11_Witness ==
  /\ cmd = "start" /\ Succeeded(MigrationList)
  /\ Unapplied = 2 /\ Len(listing) = 2
  /\ Count(MigrationUp) = 1 /\ Succeeded(MigrationUp)
  /\ Logged("Migrations applied")
  /\ \E i \in DOMAIN logs :
       logs[i].msg = "Found pending migration(s)" /\ logs[i].arg = 2

\* C12: once migration up, invoked from the counted path, has exited
\* non-zero, start has ended with exit code 1 after printing the failure;
\* neither the migration success message nor Ready is printed, on the cold
\* and on the warm route alike.
C12_CountedApplyFailureFatal ==
  (cmd = "start" /\ AppliedFrom("counted", FALSE))
    => /\ pc = "done" /\ exitCode = 1
       /\ Logged("Migration failed")
       /\ ~Logged("Migrations applied")
       /\ ~Logged("Ready for development!")
       /\ ops[Len(ops)].arg = "counted"

C12_Witness ==
  /\ cmd = "start" /\ running /\ AppliedFrom("counted", FALSE)
  /\ pc = "done" /\ exitCode = 1 /\ Unapplied > 0

\* C13: when the listing failed, migration up is invoked blindly (exactly
\* once, as the next step); if it exits non-zero nothing fatal happens: no
\* migration success or failure message is printed and start goes on to
\* print Ready and end with exit code 0.
C13_BlindApplyFailureAbsorbed ==
  (cmd = "start" /\ Failed(MigrationList))
    => /\ Count(MigrationUp) = (IF pc = "migrationUpBlind" THEN 0 ELSE 1)
       /\ \A i \in DOMAIN ops : ops[i].op = MigrationUp => ops[i].arg = "blind"
       /\ AppliedFrom("blind", FALSE)
            => /\ ~Logged("Migrations applied")
               /\ ~Logged("Migration failed")
               /\ pc \in {"printReady", "done"}
               /\ pc = "done" => exitCode = 0 /\ Logged("Ready for development!")

C13_Witness ==
  /\ cmd = "start" /\ Failed(MigrationList) /\ AppliedFrom("blind", FALSE)
  /\ pc = "done" /\ exitCode = 0 /\ Logged("Ready for development!")

\* C14: no start ever invokes supabase db reset; whatever is invoked to
\* apply migrations, from the counted or the blind path, is supabase
\* migration up.
C14_NeverReset ==
  cmd = "start"
    => /\ ~Invoked("supabase db reset")
       /\ \A i \in DOMAIN ops :
            ops[i].arg \in {"counted", "blind"}
              => ops[i].op = "supabase migration up"

C14_Witness ==
  /\ cmd = "start" /\ ~running /\ Succeeded(RestoreSql)
  /\ AppliedFrom("counted", TRUE) /\ pc = "done"

\* C15 (as stated): on a cold start, a failed copy or a failed execution of
\* the snapshot is warned about, a failed execution is not reported as a
\* restored session, and start goes on to the migration check.
C15_RestoreErrorsWarned ==
  (cmd = "start" /\ ~running /\ (Failed(RestoreCp) \/ Failed(RestoreSql)))
    => /\ Logged("State restoration had some errors")
       /\ Failed(RestoreSql) => ~Logged("Previous session restored!")
       /\ pc \in {"applyMigrations", "migrationUpCounted", "migrationUpBlind",
                  "printReady", "done"}
       /\ pc = "done" => Invoked(MigrationList)

\* C16: on a cold start (a strategy exited zero) with no snapshot file, the
\* restore step prints 'No saved state found' and invokes neither docker cp
\* nor psql -f; start never fails for it: it ends only after the migration
\* listing (and the apply, when the listing failed or had unapplied entries),
\* with Ready, unless the counted apply failed.
C16_NoSnapshotColdStart ==
  (cmd = "start" /\ ~running /\ StartSucceeded /\ ~stateExists(files))
    => /\ pc = "restoreSavedState" \/ Logged("No saved state found")
       /\ ~Invoked(RestoreCp) /\ ~Invoked(RestoreSql)
       /\ ~Logged("State restoration had some errors")
       /\ pc = "done"
            => /\ Invoked(MigrationList)
               /\ (Failed(MigrationList) \/ Unapplied > 0) => Invoked(MigrationUp)
               /\ Logged("Ready for development!") \/ AppliedFrom("counted", FALSE)
               /\ exitCode = (IF AppliedFrom("counted", FALSE) THEN 1 ELSE 0)

C16_Witness ==
  /\ cmd = "start" /\ ~running /\ StartSucceeded /\ ~stateExists(files)
  /\ Logged("No saved state found")
  /\ Succeeded(MigrationList) /\ Succeeded(MigrationUp)
  /\ pc = "done" /\ Logged("Ready for development!")

\* C19 (as stated): stop clears auth.refresh_tokens before saving: whenever
\* a snapshot was written, the token delete had succeeded before pg_dump ran.
C19_TokensClearedBeforeSave ==
  (cmd = "stop" /\ Succeeded("fs.writeFile"))
    => /\ Succeeded(Sanitize)
       /\ FirstIndex(Sanitize) < FirstIndex("pg_dump")

\* C20: when the token delete failed, a warning is printed (and no
\* 'cleared' message), supabase stop is the next step, and the command ends
\* with exit code 0 after invoking it.
C20_SanitizeFailureNonFatal ==
  (cmd = "stop" /\ Failed(Sanitize))
    => /\ Logged("Could not clear refresh tokens (this is okay)")
       /\ ~Logged("Refresh tokens cleared")
       /\ pc \in {"supabaseStop", "done"}
       /\ pc = "done"
            => /\ Invoked(PlatformStop)
               /\ FirstIndex(Sanitize) < FirstIndex(PlatformStop)
               /\ exitCode = 0

C20_Witness ==
  /\ cmd = "stop" /\ Failed(Sanitize) /\ pc = "done"
  /\ Invoked(PlatformStop) /\ exitCode = 0
  /\ Succeeded("fs.writeFile")

-----------------------------------------------------------------------------
(* Properties of the snapshot's content, under SpecDb.                      *)

\* A step that replays the snapshot.
Replayed == replays' = replays + 1

\* The database holds every row the snapshot was taken from.
ContainsSnapshotRows ==
  \A t \in DOMAIN savedDb :
    /\ t \in DOMAIN db
    /\ Range(savedDb[t].rows) \subseteq Range(db[t].rows)

\* C17: replaying the snapshot against a database that already contains all
\* of its rows leaves the row count of every captured table unchanged.
\* Violated: public.events has no unique constraint, so ON CONFLICT DO NOTHING
\* never skips and each of its rows is inserted a second time.
C17_ReplayKeepsRowCounts ==
  [][(Replayed /\ ContainsSnapshotRows) =>
       \A t \in DOMAIN savedDb : Len(db'[t].rows) = Len(db[t].rows)]_vars

\* C18: a replay into a reset database leaves every captured table present and
\* holding every row it held when the snapshot was taken.
\* Violated: a text value with a semicolon at the end of a line is cut by the
\* rewrite, and the row comes back with ON CONFLICT DO NOTHING inside its value.
C18_RoundTrip ==
  [][(Replayed /\ db = EmptyDb) =>
       \A t \in DOMAIN savedDb :
         /\ t \in DOMAIN db'
         /\ Range(savedDb[t].rows) \subseteq Range(db'[t].rows)]_vars

-----------------------------------------------------------------------------
(* Properties of the probe, of the state file's readers and of start's end. *)

\* The probe of the running command: its docker ps failed.
ProbeFailed == ops # <<>> /\ ops[1].op = "docker ps" /\ ~ops[1].ok

\* C21: the probe answers a boolean for every outcome of docker ps and never
\* ends the command by an error: when docker ps failed the answer is false,
\* so start goes on to start the platform and stop ends with exit code 0 after
\* warning that nothing is running, without any further operation.
C21_ProbeNeverThrows ==
  (cmd # "none")
    => /\ running \in BOOLEAN
       /\ ops[1].op = "docker ps"
       /\ ProbeFailed
            => /\ ~running
               /\ (cmd = "start" /\ Len(ops) >= 2) => ops[2].op \in Range(startStrategies)
               /\ cmd = "stop" => /\ pc = "done" /\ exitCode = 0 /\ Len(ops) = 1
                                  /\ Logged("Supabase is not running")

C21_Witness ==
  /\ cmd = "stop" /\ ProbeFailed /\ pc = "done"
  /\ containerName \in containers

-----------------------------------------------------------------------------
(* Properties of table discovery, under SpecCatalog.                        *)

NamePrefixed(name, a, b) == Len(name) >= 2 /\ name[1] = a /\ name[2] = b

NameSuffixed(name, a, b) ==
  Len(name) >= 2 /\ name[Len(name) - 1] = a /\ name[Len(name)] = b

\* An export target the claim rules out.
Excluded(f) ==
  \/ f.schema \notin {<<"public">>, <<"auth">>}
  \/ NamePrefixed(f.table, "supabase", "_")
  \/ NameSuffixed(f.table, "_", "migrations")
  \/ NamePrefixed(f.table, "pg", "_")
  \/ f.table \in {<<"schema", "_", "migrations">>, <<"spatial_ref_sys">>}

\* The rows of the catalog that pass the WHERE clause, in ascending order of
\* (schema, table).
AscendingRows ==
  CHOOSE seq \in Scans({r \in catalog : Where(r)}) :
    \A i, j \in DOMAIN seq : i < j => RowLess(seq[i], seq[j])

\* The part of a name before its first "|".
BeforePipe(name) ==
  LET pipes == {i \in DOMAIN name : name[i] = "|"}
  IN  IF pipes = {} THEN name ELSE SubSeq(name, 1, Min(pipes) - 1)

C22_ExclusionCorrectness ==
  \A i \in DOMAIN targets : ~Excluded(targets[i])

\* A catalog row the claim requires in the export list.
Required(r) ==
  /\ r.schema \in {"public", "auth"}
  /\ ~NamePrefixed(r.table, "supabase", "_")
  /\ ~NameSuffixed(r.table, "_", "migrations")
  /\ ~NamePrefixed(r.table, "pg", "_")
  /\ r.table \notin {<<"schema", "_", "migrations">>, <<"spatial_ref_sys">>}

\* C32: after a discovery every table of public or auth that is not
\* literally prefixed supabase_ or pg_, not literally suffixed _migrations
\* and neither schema_migrations nor spatial_ref_sys is an export target.
\* Violated: "_" in a LIKE pattern stands for any one character, so the query
\* drops public.supabasex, whose name has no "_" at all.
C32_DiscoveryComplete ==
  discoveries >= 1 =>
    \A r \in catalog :
      Required(r) =>
        \E i \in DOMAIN targets :
          targets[i] = [schema |-> <<r.schema>>, table |-> r.table]


-----------------------------------------------------------------------------
(* Properties of the rewrite and of the composed snapshot, under SpecDb.    *)

\* The statements of the snapshot, as psql reads them.
SnapshotStatements == Statements(stateSql)

IsInsert(st) == st # <<>> /\ st[1] = "INSERT INTO "

HasConflictClause(st) == st[Len(st)] = "ON CONFLICT DO NOTHING"

\* C23: every INSERT statement of the snapshot ends with ON CONFLICT DO
\* NOTHING, whatever its values contain.
\* Violated: [^;]+ stops at a semicolon inside a quoted value, so the INSERT
\* of a row holding 'a;b' is left as the exporter wrote it.
C23_RewriteTotal ==
  (stateSql # <<>>)
    => \A k \in DOMAIN SnapshotStatements :
         IsInsert(SnapshotStatements[k]) => HasConflictClause(SnapshotStatements[k])

\* A statement without the clause appended to it.
WithoutClause(st) ==
  IF IsInsert(st) /\ HasConflictClause(st) THEN SubSeq(st, 1, Len(st) - 1) ELSE st

\* The statements of the snapshot composed from the dump as exported.
ExportedStatements ==
  Statements(sql(rawSql(savedDb, discoveredTables(savedDb)),
                 CHOOSE t \in Timestamps : TRUE))

\* C24: apart from the clause appended to INSERT statements, the statements of
\* the snapshot are those of the export, token for token.
\* Violated: for a value with a semicolon at the end of a line the clause is
\* put inside the string literal.
C24_RewriteOnlyAppendsClause ==
  (stateSql # <<>>)
    => [k \in DOMAIN SnapshotStatements |-> WithoutClause(SnapshotStatements[k])]
         = ExportedStatements

Position(token) == CHOOSE i \in DOMAIN stateSql : stateSql[i] = token

\* C28: in a written snapshot the banner and its timestamp come first, the
\* statement switching enforcement off comes before the whole rewritten dump,
\* the one switching it back on after it, and the notice is the last statement.
C28_SnapshotLayout ==
  (stateSql # <<>>)
    => LET safe == safeSql(rawSql(savedDb, discoveredTables(savedDb)))
           sts == SnapshotStatements
           n == Len(sts)
           off == Position("SET session_replication_role = replica")
           on == Position("SET session_replication_role = DEFAULT")
       IN  /\ stateSql[1] = "-- Local Development State Snapshot"
           /\ stateSql[3] = "-- Generated: " /\ stateSql[4] \in Timestamps
           /\ Cardinality({i \in DOMAIN stateSql : stateSql[i] \in
                {"SET session_replication_role = replica",
                 "SET session_replication_role = DEFAULT"}}) = 2
           /\ off < on
           /\ \E a \in (off + 1)..(on - Len(safe)) :
                SubSeq(stateSql, a, a + Len(safe) - 1) = safe
           /\ sts[1] = <<"SET session_replication_role = replica">>
           /\ sts[n - 1] = <<"SET session_replication_role = DEFAULT">>
           /\ sts[n] = <<"DO $$ BEGIN RAISE NOTICE END $$">>
           /\ \A k \in 2..(n - 2) :
                sts[k][1] \in {"CREATE TABLE ", "INSERT INTO ", "ALTER TABLE ONLY "}

C28_Witness ==
  /\ stateSql # <<>>
  /\ \E k \in DOMAIN SnapshotStatements :
       IsInsert(SnapshotStatements[k]) /\ HasConflictClause(SnapshotStatements[k])
  /\ \E k \in DOMAIN SnapshotStatements :
       IsInsert(SnapshotStatements[k]) /\ ~HasConflictClause(SnapshotStatements[k])

-----------------------------------------------------------------------------
(* Properties of the state file's readers, under SpecFile.                  *)

\* C25: what a reader copies is a complete snapshot, the old one or the new
\* one.
\* Violated: a docker cp between the opening of the state file by
\* fs.writeFile and its last write reads an empty or partial file.
C25_ReaderSeesCompleteSnapshot ==
  (observed # <<>>)
    => \E timestamp \in 1..MaxClock : observed[1] = CompleteSnapshot(timestamp)

-----------------------------------------------------------------------------
(* Properties of start with a state file that can go missing, under         *)
(* SpecRemoval.                                                             *)

\* C26: no operation of a start names the backup file; docker cp is only ever
\* given the state file path; and while the state file is missing, a start
\* invokes neither docker cp nor psql -f, whether or not a backup exists.
C26_BackupNeverRestored ==
  (cmd = "start")
    => /\ \A i \in DOMAIN ops :
            /\ ops[i].arg # backupFile
            /\ ops[i].op = RestoreCp => ops[i].arg = stateFile
       /\ (pc # "done" /\ ~stateExists(files))
            => ~Invoked(RestoreCp) /\ ~Invoked(RestoreSql)

C26_Witness ==
  /\ cmd = "start" /\ pc = "applyMigrations" /\ ~running
  /\ ~stateExists(files) /\ fileExists(files, backupFile)
  /\ Logged("No saved state found")

-----------------------------------------------------------------------------
(* Properties of the dump's size and of start's end, under Spec.            *)

\* The dump of the running stop went beyond maxBuffer.
DumpOverflowed ==
  \E i \in DOMAIN ops : ops[i].op = "pg_dump" /\ ops[i].arg = "ENOBUFS"

\* C27: when the dump goes beyond maxBuffer, pg_dump counts as failed, the
\* failure is logged, and the state file is not written in that command.
C27_OverflowIsExportError ==
  (cmd = "stop" /\ DumpOverflowed)
    => /\ Failed("pg_dump") /\ ~Succeeded("pg_dump")
       /\ ~Invoked("fs.writeFile")
       /\ Logged("Failed to save state")
       /\ ~Logged("State saved")

C27_Witness ==
  /\ cmd = "stop" /\ pc = "done" /\ DumpOverflowed
  /\ containerName \in containers
  /\ stateExists(files)

\* All three start strategies of the running start exited non-zero.
StartupExhausted == \A i \in DOMAIN C9_Order : Failed(C9_Order[i])

\* How a start that has ended has ended.
StartEnded(code) == cmd = "start" /\ pc = "done" /\ exitCode = code

\* C30: every start ends, with exit code 0 after printing Ready or with exit
\* code 1 without it; it ends with 1 exactly when all three start strategies
\* failed or the counted apply exited non-zero, so a failed restore, a missing
\* snapshot, a failed listing and a failed blind apply all end in Ready.
C30_StartEndsReadyOrFailed ==
  /\ []((cmd = "start" /\ pc = "done")
          => /\ exitCode \in {0, 1}
             /\ exitCode = 1 <=> (StartupExhausted \/ AppliedFrom("counted", FALSE))
             /\ exitCode = 0 <=> Logged("Ready for development!"))
  /\ (cmd = "start" /\ pc # "done") ~> (StartEnded(0) \/ StartEnded(1))

C30_Witness ==
  /\ StartEnded(0)
  /\ Failed(RestoreCp) /\ Failed(MigrationList) /\ AppliedFrom("blind", FALSE)
  /\ Logged("Ready for development!")

-----------------------------------------------------------------------------
(* sync: the cloud data is exported to a seed file, the local database is   *)
(* reset, and the seed file is replayed.                                    *)

seedFile == "supabase/seed-data.sql"

\* The tables the export asks the cloud project for.
CloudTables == {"coaches", "events"}

\* The steps sync() runs once the probe has answered running, in order.
syncSequence == <<"exportCloudData", "dbReset", "psqlSeed">>

\* sync(): the branch taken on the probe's answer.
syncEntry(isUp) == IF isUp THEN syncSequence[1] ELSE "exit1"

\* Mutant: a failed export is logged and sync goes on.
syncAfterExport_Continues(threw) == After(syncSequence, "exportCloudData")

\* sync(): what follows the export, which returned or threw; the catch
\* ends the process.
syncAfterExport(threw) ==
  IF threw THEN "exit1" ELSE After(syncSequence, "exportCloudData")

\* sync(): a non-zero exit of the reset is fatal.
syncAfterReset(status) ==
  IF status # 0 THEN "exit1" ELSE After(syncSequence, "dbReset")

\* exportCloudData(): the seed file generated from the tables that were
\* fetched with rows.
generateSql(fetched) == [seed |-> fetched]

SyncCmd ==
  /\ pc \in {"idle", "done"}
  /\ \E queryOk \in BOOLEAN :
       LET isUp == isRunning(queryOk, containers) IN
       /\ running' = isUp
       /\ ops' = <<Op("docker ps", queryOk)>>
       /\ logs' = <<Log("info", "Syncing cloud data to local...")>>
                    \o (IF isUp THEN <<>>
                        ELSE <<Log("error", "Supabase is not running")>>)
       /\ Goto(syncEntry(isUp))
  /\ cmd' = "sync"
  /\ attempt' = 1
  /\ tableFlags' = <<>>
  /\ listing' = <<>>
  /\ UNCHANGED <<files, containers, clock, prevState>>
  /\ UNCHANGED dbVars
  /\ UNCHANGED catalogVars
  /\ UNCHANGED ioVars

\* exportCloudData(): without the two environment variables the process
\* exits; a table whose fetch fails or is empty is skipped; writing the seed
\* file can throw, which sync() catches.
SyncExport ==
  /\ pc = "exportCloudData"
  /\ \E hasEnv \in BOOLEAN, fetched \in SUBSET CloudTables, written \in BOOLEAN :
       IF ~hasEnv
       THEN /\ logs' = Append(logs, Log("error", "Missing environment variables"))
            /\ Goto("exit1")
            /\ UNCHANGED <<ops, files>>
       ELSE /\ ops' = ops \o <<OpArg("fetch", TRUE, Cardinality(fetched)),
                               OpArg("fs.writeFile", written, seedFile)>>
            /\ files' = IF written
                        THEN writeFile(files, seedFile, generateSql(fetched))
                        ELSE files
            /\ logs' = Append(logs, IF written
                                    THEN Log("success", "Exported total rows")
                                    ELSE Log("error", "Export failed"))
            /\ Goto(syncAfterExport(~written))
  /\ UNCHANGED <<cmd, running, attempt, tableFlags, containers, clock,
                 prevState, listing>>
  /\ UNCHANGED dbVars
  /\ UNCHANGED catalogVars
  /\ UNCHANGED ioVars

SyncReset ==
  /\ pc = "dbReset"
  /\ \E status \in ExitStatuses :
       /\ ops' = Append(ops, Op("supabase db reset", status = 0))
       /\ logs' = Append(logs, Log("info", "Resetting local database..."))
                    \o (IF status # 0
                        THEN <<Log("error", "Database reset failed")>>
                        ELSE <<>>)
       /\ Goto(syncAfterReset(status))
  /\ UNCHANGED <<cmd, running, attempt, tableFlags, files, containers, clock,
                 prevState, listing>>
  /\ UNCHANGED dbVars
  /\ UNCHANGED catalogVars
  /\ UNCHANGED ioVars

\* psqlFile(seedFile) under the try of sync(): docker cp, then psql -f; a
\* throw of either is answered with a warning.
SyncSeed ==
  /\ pc = "psqlSeed"
  /\ \E copied \in BOOLEAN, executed \in BOOLEAN :
       /\ copied => containerName \in containers
       /\ ops' = Append(ops, OpArg("docker cp", copied, seedFile))
                   \o (IF copied
                       THEN <<Op("psql -f /tmp/state.sql", executed)>>
                       ELSE <<>>)
       /\ logs' = Append(logs, Log("info", "Applying seed data..."))
                    \o (IF copied /\ executed THEN <<>>
                        ELSE <<Log("warn", "Some seed data may have failed")>>)
                    \o <<Log("success", "Sync complete!")>>
  /\ Goto(After(syncSequence, "psqlSeed"))
  /\ UNCHANGED <<cmd, running, attempt, tableFlags, files, containers, clock,
                 prevState, listing>>
  /\ UNCHANGED dbVars
  /\ UNCHANGED catalogVars
  /\ UNCHANGED ioVars

SyncNext ==
  \/ SyncCmd
  \/ SyncExport
  \/ SyncReset
  \/ SyncSeed
  \/ EnvContainers

SpecSync == Init /\ [][SyncNext]_vars

-----------------------------------------------------------------------------
(* add and remove: the configured services of the dev:local script.  The    *)
(* configuration file holds the list of services; each command is one       *)
(* process, which loads the list, changes it, saves it and regenerates the  *)
(* script.                                                                  *)

MaxServices == 2

configFile == ".supabase-stateful.json"

scriptPath == "scripts/dev-local.sh"

\* Service names as typed or stored; "" is an argument left out or an empty
\* answer.
ServiceNames == {"inngest", "Inngest", "ngrok"}

ServiceCommands == {"npx inngest-cli dev", "ngrok http 3000"}

Colors == {"magenta", "yellow"}

\* String.toLowerCase on the names.
toLowerCase(name) == IF name = "Inngest" THEN "inngest" ELSE name

\* getConfig() and config.devServices || []: the stored list, empty when
\* there is no configuration file.
devServices(f) == IF fileExists(f, configFile) THEN f[configFile] ELSE <<>>

Distinct(list) ==
  \A i, j \in DOMAIN list : list[i].name = list[j].name => i = j

\* The configurations whose service names are pairwise distinct.
ServiceLists ==
  {list \in UNION {[1..k -> [name : ServiceNames, command : ServiceCommands,
                             color : Colors]] : k \in 0..MaxServices} :
     Distinct(list)}

\* add(): the service from the arguments, or from the prompts when an
\* argument is missing; the prompts give none on an empty answer.
newService(interactive, name, command, color) ==
  IF interactive /\ (name = "" \/ command = "") THEN <<>>
  ELSE <<[name |-> toLowerCase(name), command |-> command, color |-> color]>>

\* Mutant: add() pushes without looking for the name.
addService_Unchecked(list, service, replace) == Append(list, service)

\* add(): the list after the duplicate check and the push.
addService(list, service, replace) ==
  IF \E i \in DOMAIN list : list[i].name = service.name
  THEN IF replace
       THEN Append(SelectSeq(list, LAMBDA e : e.name # service.name), service)
       ELSE list
  ELSE Append(list, service)

\* remove(): the list without the entries of that name.
removeService(list, name) == SelectSeq(list, LAMBDA e : e.name # name)

\* generateDevLocalScript(): the script, as the names it runs.
generateDevLocalScript(list) ==
  <<"supabase", "next">> \o [i \in DOMAIN list |-> toLowerCase(list[i].name)]

\* saveConfig() and regenerateScript(): the list is written to the
\* configuration file, and the script is rewritten when it exists.
saveServices(f, list) ==
  LET saved == writeFile(f, configFile, list)
  IN  IF fileExists(f, scriptPath)
      THEN writeFile(saved, scriptPath, generateDevLocalScript(list))
      ELSE saved

\* The project as setup or its owner left it: some configuration with
\* pairwise distinct names, with or without the generated script.
EnvProject ==
  /\ pc \in {"idle", "done"}
  /\ \E list \in ServiceLists, scripted \in BOOLEAN :
       files' = IF scripted
                THEN (configFile :> list) @@ (scriptPath :> generateDevLocalScript(list))
                ELSE (configFile :> list)
  /\ cmd' = "none"
  /\ ops' = <<>>
  /\ logs' = <<>>
  /\ Goto("idle")
  /\ UNCHANGED <<running, attempt, tableFlags, containers, clock, prevState,
                 listing>>
  /\ UNCHANGED dbVars
  /\ UNCHANGED catalogVars
  /\ UNCHANGED ioVars

AddCmd ==
  /\ pc \in {"idle", "done"}
  /\ \E interactive \in BOOLEAN, name \in ServiceNames \cup {""},
        command \in ServiceCommands \cup {""}, color \in Colors,
        replace \in BOOLEAN :
       LET found == newService(interactive, name, command, color)
           list == devServices(files)
       IN
       /\ ~interactive => name # "" /\ command # ""
       /\ IF found = <<>>
          THEN /\ ops' = <<OpArg("add", FALSE, "")>>
               /\ logs' = <<Log("error", "No service added")>>
               /\ files' = files
          ELSE LET service == found[1]
                   added == addService(list, service, replace)
               IN  /\ Len(added) <= MaxServices
                   /\ ops' = <<OpArg("add", added # list, service.name)>>
                   /\ IF added = list
                      THEN /\ logs' = <<Log("info", "Cancelled")>>
                           /\ files' = files
                      ELSE /\ logs' = <<Log("success", "Added to dev:local")>>
                           /\ files' = saveServices(files, added)
  /\ cmd' = "add"
  /\ Goto("exit0")
  /\ UNCHANGED <<running, attempt, tableFlags, containers, clock, prevState,
                 listing>>
  /\ UNCHANGED dbVars
  /\ UNCHANGED catalogVars
  /\ UNCHANGED ioVars

\* remove(): the name is the argument, or in interactive mode the one
\* selected among the configured services.
RemoveCmd ==
  /\ pc \in {"idle", "done"}
  /\ \E name \in ServiceNames \cup {""} :
       LET list == devServices(files) IN
       IF name = "" /\ list = <<>>
       THEN /\ ops' = <<OpArg("remove", FALSE, "")>>
            /\ logs' = <<Log("info", "No services configured")>>
            /\ files' = files
       ELSE \E selected \in IF name = ""
                            THEN {list[i].name : i \in DOMAIN list}
                            ELSE {name} :
              IF \E i \in DOMAIN list : list[i].name = selected
              THEN /\ ops' = <<OpArg("remove", TRUE, selected)>>
                   /\ logs' = <<Log("success", "Removed from dev:local")>>
                   /\ files' = saveServices(files, removeService(list, selected))
              ELSE /\ ops' = <<OpArg("remove", FALSE, selected)>>
                   /\ logs' = <<Log("error", "Service not found")>>
                   /\ files' = files
  /\ cmd' = "remove"
  /\ Goto("exit0")
  /\ UNCHANGED <<running, attempt, tableFlags, containers, clock, prevState,
                 listing>>
  /\ UNCHANGED dbVars
  /\ UNCHANGED catalogVars
  /\ UNCHANGED ioVars

ServicesNext ==
  \/ EnvProject
  \/ AddCmd
  \/ RemoveCmd

SpecServices == Init /\ [][ServicesNext]_vars

-----------------------------------------------------------------------------
(* setup: the Supabase client files.  Of what setup writes, only            *)
(* createClientFiles writes to these four paths; the other steps of setup   *)
(* (package.json, the workflow, the dev script) write elsewhere.            *)

\* The files array of createClientFiles, as paths under the utils directory.
ClientFiles ==
  {"utils/supabase/config.js", "utils/supabase/client.js",
   "utils/supabase/server.js", "utils/supabase/middleware.js"}

\* The template written to a path, and the same file after its owner has
\* customized it.
Template(path) == [template |-> path, customized |-> FALSE]

Customized(path) == [template |-> path, customized |-> TRUE]

\* Mutant: existing files are always overwritten.
shouldOverwrite_Always(existing, force, isInteractive, answer) == TRUE

\* createClientFiles(): --force, or the answer to the overwrite prompt, which
\* is asked only in interactive mode when some file exists and --force was
\* not given.
shouldOverwrite(existing, force, isInteractive, answer) ==
  IF existing # {} /\ ~force /\ isInteractive THEN answer ELSE force

\* createClientFiles(): a file that exists is skipped unless shouldOverwrite;
\* every other file is written from its template.
createClientFiles(f, force, isInteractive, answer) ==
  LET existing == ClientFiles \cap DOMAIN f
      overwrite == shouldOverwrite(existing, force, isInteractive, answer)
  IN  [path \in DOMAIN f \cup ClientFiles |->
         IF path \in ClientFiles /\ (path \notin existing \/ overwrite)
         THEN Template(path)
         ELSE f[path]]

\* Between commands the owner of the project customizes or deletes a client
\* file.
EnvClientFile ==
  /\ pc \in {"idle", "done"}
  /\ \E path \in ClientFiles \cap DOMAIN files :
       \/ files' = writeFile(files, path, Customized(path))
       \/ files' = [q \in DOMAIN files \ {path} |-> files[q]]
  /\ cmd' = "none"
  /\ ops' = <<>>
  /\ logs' = <<>>
  /\ Goto("idle")
  /\ UNCHANGED <<running, attempt, tableFlags, containers, clock, prevState,
                 listing>>
  /\ UNCHANGED dbVars
  /\ UNCHANGED catalogVars
  /\ UNCHANGED ioVars

\* setup(): interactive means no --yes on a terminal; createClientFiles is
\* called when the project is a Next.js one, the utils path was detected and
\* (in interactive mode) the creation was accepted.
SetupCmd ==
  /\ pc \in {"idle", "done"}
  /\ \E force \in BOOLEAN, yes \in BOOLEAN, isTTY \in BOOLEAN,
        detected \in BOOLEAN, accepted \in BOOLEAN, answer \in BOOLEAN :
       LET isInteractive == ~yes /\ isTTY
           createClients == detected /\ (isInteractive => accepted)
       IN
       /\ ops' = <<OpArg("createClientFiles", createClients,
                         [force |-> force, interactive |-> isInteractive,
                          answer |-> answer])>>
       /\ files' = IF createClients
                   THEN createClientFiles(files, force, isInteractive, answer)
                   ELSE files
  /\ cmd' = "setup"
  /\ logs' = <<Log("info", "Setting up supabase-stateful...")>>
  /\ Goto("exit0")
  /\ UNCHANGED <<running, attempt, tableFlags, containers, clock, prevState,
                 listing>>
  /\ UNCHANGED dbVars
  /\ UNCHANGED catalogVars
  /\ UNCHANGED ioVars

SetupNext ==
  \/ SetupCmd
  \/ EnvClientFile

SpecSetup == Init /\ [][SetupNext]_vars

-----------------------------------------------------------------------------
(* Further properties of the probe and of stop, under Spec.                 *)

\* C31: while a command runs on the probe's answer Running, the configured
\* container is among the running containers.
\* Violated: the probe looks for 'supabase_db_' anywhere in the container
\* list, so the database container of another project answers Running too.
C31_ProbeMatchesConfiguredContainer ==
  (cmd # "none" /\ pc # "done" /\ running) => containerName \in containers

\* C33: a stop whose probe answered not running has ended with exit code 0
\* having called nothing but the probe (no discovery, no dump, no token
\* clearing, no platform stop, no file operation), and no step taken while
\* such a stop is the current command changes the state file or the backup.
C33_StopNotRunningNoOp ==
  /\ []((cmd = "stop" /\ ~running) =>
          /\ pc = "done" /\ exitCode = 0
          /\ Len(ops) = 1 /\ ops[1].op = "docker ps"
          /\ ~Logged("State saved"))
  /\ [][(cmd' = "stop" /\ ~running') => files' = files]_vars

C33_Witness ==
  /\ cmd = "stop" /\ ~running /\ pc = "done"
  /\ fileExists(files, stateFile) /\ fileExists(files, backupFile)
  /\ containers # {}

\* C34: stop prints 'State saved' or 'State saved and auth tokens cleared'
\* only when the state file was written during the invocation.
\* Violated: saveState returns normally on an empty discovery, so stop prints
\* 'State saved' with nothing written; and the closing lines are printed
\* whatever became of the save.
C34_SavedReportedOnlyIfWritten ==
  (cmd = "stop" /\ (Logged("State saved")
                      \/ Logged("State saved and auth tokens cleared")))
    => Succeeded("fs.writeFile")

\* C35: a start invokes migration up at most once and never from both the
\* counted and the blind path; none before the listing, and once the command
\* has ended after a listing, exactly one if the listing failed or showed an
\* unapplied entry and none otherwise.
C35_MigrateAtMostOnce ==
  cmd = "start" =>
    /\ Count(MigrationUp) <= 1
    /\ ~((\E i \in DOMAIN ops : ops[i].arg = "counted")
           /\ (\E j \in DOMAIN ops : ops[j].arg = "blind"))
    /\ ~Invoked(MigrationList) => ~Invoked(MigrationUp)
    /\ (pc = "done" /\ Invoked(MigrationList)) =>
         (Count(MigrationUp) = 1 <=> (Failed(MigrationList) \/ Unapplied > 0))

C35_Witness ==
  /\ cmd = "start" /\ pc = "done" /\ exitCode = 0
  /\ Failed(MigrationList) /\ AppliedFrom("blind", TRUE)
  /\ Count(MigrationUp) = 1

\* C36: at every point of every sequence of start and stop commands a backup
\* file exists only if the state file exists, the only files the tool keeps
\* are the state file and the one backup path, and no step of the tool takes
\* an existing state file away.
C36_BackupOnlyWithSnapshot ==
  /\ [](fileExists(files, backupFile) => fileExists(files, stateFile))
  /\ [](DOMAIN files \subseteq {stateFile, backupFile})
  /\ [][fileExists(files, stateFile) => fileExists(files', stateFile)]_vars

C36_Witness ==
  /\ cmd = "start" /\ pc = "done" /\ Succeeded(RestoreCp)
  /\ fileExists(files, backupFile) /\ fileExists(files, stateFile)
  /\ files[backupFile] # files[stateFile]

-----------------------------------------------------------------------------
(* Properties of sync, under SpecSync.                                      *)

DbReset == "supabase db reset"

SeedWritten ==
  \E i \in DOMAIN ops :
    ops[i].op = "fs.writeFile" /\ ops[i].arg = seedFile /\ ops[i].ok

\* C37: sync invokes supabase db reset only after the probe answered running
\* and the export had returned (the seed file written), and the reset
\* precedes every replay step; when the probe answered not running, or the
\* export exited or threw, sync has ended with exit code 1 having invoked
\* neither the reset nor the replay of seed data.
C37_ResetOnlyAfterExport ==
  cmd = "sync" =>
    /\ Invoked(DbReset) =>
         /\ running /\ SeedWritten
         /\ \A i \in DOMAIN ops :
              ops[i].op = "fs.writeFile" => i < FirstIndex(DbReset)
         /\ \A i \in DOMAIN ops :
              ops[i].op \in {RestoreCp, RestoreSql} => FirstIndex(DbReset) < i
    /\ (~running \/ (pc \notin {"exportCloudData"} /\ ~SeedWritten)) =>
         /\ pc = "done" /\ exitCode = 1
         /\ ~Invoked(DbReset)
         /\ ~Invoked(RestoreCp) /\ ~Invoked(RestoreSql)
         /\ ~Logged("Sync complete!")

C37_Witness ==
  /\ cmd = "sync" /\ pc = "done" /\ exitCode = 0
  /\ Succeeded(DbReset) /\ Succeeded(RestoreSql)
  /\ fileExists(files, seedFile) /\ files[seedFile] = generateSql(CloudTables)

-----------------------------------------------------------------------------
(* Properties of add and remove, under SpecServices.                        *)

HasName(list, name) == \E i \in DOMAIN list : list[i].name = name

Others(list, name) == SelectSeq(list, LAMBDA e : e.name # name)

-----------------------------------------------------------------------------
(* Properties of setup, under SpecSetup.                                    *)

\* C39: in a setup step a client file that existed still exists, and its
\* content changes only if --force was given or the mode is interactive and
\* the overwrite prompt was answered yes; without --force in non-interactive
\* mode every client file that existed keeps its content, the only files
\* created are missing client files, from their templates, and all of them
\* are created when createClientFiles was called.
C39_NoSilentOverwrite ==
  [][cmd' = "setup" =>
       LET opts == ops'[1].arg
           existing == ClientFiles \cap DOMAIN files
       IN  /\ \A path \in existing :
                /\ path \in DOMAIN files'
                /\ files'[path] # files[path] =>
                     opts.force \/ (opts.interactive /\ opts.answer)
           /\ (~opts.force /\ ~opts.interactive) =>
                /\ \A path \in existing : files'[path] = files[path]
                /\ \A path \in DOMAIN files' \ DOMAIN files :
                     path \in ClientFiles /\ files'[path] = Template(path)
                /\ ops'[1].ok => ClientFiles \subseteq DOMAIN files']_vars

C39_Witness ==
  /\ cmd = "setup" /\ Succeeded("createClientFiles")
  /\ ~ops[1].arg.force /\ ~ops[1].arg.interactive
  /\ ClientFiles \subseteq DOMAIN files
  /\ files["utils/supabase/client.js"] = Customized("utils/supabase/client.js")
  /\ files["utils/supabase/server.js"] = Template("utils/supabase/server.js")

=============================================================================
